---- MODULE Spec2Model ----
(***************************************************************************)
(* Model of console.js: the polling loop of a TSDBWatch (request, backoff,  *)
(* refresh, destroy) as driven by the Chart that owns it and by the         *)
(* browser (XMLHttpRequest events and window timers).                       *)
(*                                                                         *)
(* Seconds-valued fields (delay_, refresh_) are kept in milliseconds, the   *)
(* unit window.setTimeout receives them in (x * 1000), so that 0.5 s is an   *)
(* integer.                                                                 *)
(***************************************************************************)
EXTENDS Integers, Sequences, FiniteSets, TLC

\* ---------------------------------------------------------------- bounds
\* The consecutive-failure counter (an observer, not program state) stops
\* counting here; MaxFails means "MaxFails or more".
MaxFails == 8
\* The success counter (an observer) stops counting here.
MaxOks == 2
\* The handler counter (an observer) stops counting here; the console
\* specification runs at most this many handlers.
MaxEvents == 4
\* Number of times the console specification (re)creates its four charts.
MaxLoads == 2
\* Largest number of series in a SeriesSet handed to drawChart_.
MaxSeries == 2
\* Largest number of samples in one series.
MaxSamples == 2

\* ------------------------------------------------------------- constants
\* null / undefined: the falsy value of the timer_ field.  Timer handles
\* returned by window.setTimeout are positive integers.
NULL == 0

\* TSDBWatch.MIN_DELAY = 0.5 (s), in ms
MIN_DELAY == 500
\* TSDBWatch.MAX_DELAY = 32.0 (s), in ms
MAX_DELAY == 32000
\* TSDBWatch.DELAY_MULT = 2
DELAY_MULT == 2

\* Console.charts_: the four chart windows
charts_ ==
  << [title |-> "Last 20 minutes", seconds |-> 120 * 10,           resolution |-> "full"],
     [title |-> "Last 2 hours",    seconds |-> 120 * 60,           resolution |-> "minute"],
     [title |-> "Last 5 days",     seconds |-> 120 * 60 * 60,      resolution |-> "hour"],
     [title |-> "Last 120 days",   seconds |-> 120 * 60 * 60 * 24, resolution |-> "day"] >>

\* The Chart / TSDBWatch instances of the model (a Chart owns exactly one
\* TSDBWatch, so one identity stands for both): loadCharts_ creates one per
\* chart window each time it runs.
Ids == 1..(Len(charts_) * MaxLoads)

\* The instance the single-session specifications create
Solo == {1}

\* Expressions, as sequences of characters; the empty one is falsy
Exprs == {<< >>, <<"a">>, <<"b", "&">>}

\* encodeURIComponent, character by character
EncodeChar(c) ==
  CASE c = "&" -> "%26"
    [] c = "=" -> "%3D"
    [] c = " " -> "%20"
    [] OTHER   -> c

encodeURIComponent(str) == [k \in DOMAIN str |-> EncodeChar(str[k])]

\* e.target.response of a load event with responseType 'json':
\*   "null"   the body was empty or not JSON (response is null)
\*   "0"      the JSON number 0
\*   "[]"     an empty array of series
\*   "series" a non-empty array of series objects
Payloads == {"null", "0", "[]", "series"}

\* JavaScript truthiness of a payload, as tested by `!data`: null and 0 are
\* falsy, every array (the empty one included) is truthy.
Truthy(data) == data \notin {"null", "0"}

\* A truthy payload that breaks the response contract: an array holding a
\* series object without timestamps_values
Malformed == {"malformed"}

\* The value e.target.response holds for each truthy payload
Response(payload) ==
  CASE payload = "[]"        -> << >>
    [] payload = "series"    -> << [tags |-> << <<"host", "a">> >>,
                                    timestamps_values |-> << <<100, 1>> >>] >>
    [] payload = "malformed" -> << [tags |-> << <<"host", "a">> >>] >>

\* drawChart_ raises a TypeError at ts.timestamps_values.length when a series
\* object has no timestamps_values
Raises(d) == \E k \in DOMAIN d : "timestamps_values" \notin DOMAIN d[k]

Min(a, b) == IF a <= b THEN a ELSE b

VARIABLES
  options_,   \* Chart.options_: index into charts_ (0: instance not created)
  refresh_,   \* TSDBWatch.refresh_, ms
  delay_,     \* TSDBWatch.delay_, ms
  timer_,     \* TSDBWatch.timer_: NULL or a timer handle
  inflight,   \* number of XMLHttpRequests sent by the watch and not completed
  timers,     \* the window's pending timeouts: [id, w, ms]
  \* observers (not program state)
  destroyed,  \* destroy() has been called on the instance
  cancelled,  \* destroy() has been called while a timer was pending
  fails,      \* consecutive failed responses since the last success / start
  oks,        \* successful responses so far
  ev,         \* the most recent handler that ran: [op, w, data, prev]
  called,     \* instance whose callback_ ran in the most recent handler (0: none)
  sent,       \* instance that issued a request in the most recent handler (0: none)
  events,     \* number of handlers that have run (observer)
  url_,       \* TSDBWatch.url_: [start, resolution, expr]
  expr_,      \* Console.expr_
  instance,   \* Console.charts_[i].instance (0: none)
  log,        \* destroy / new calls of the most recent loadCharts_, in order (observer)
  seriesSet,  \* the SeriesSet handed to drawChart_ (its `data` argument)
  table       \* the DataTable drawChart_ built: [columns, rows, drawn]

consoleVars == << expr_, instance, log >>
drawVars == << seriesSet, table >>

vars == << options_, refresh_, delay_, timer_, inflight, timers,
           destroyed, cancelled, fails, oks, ev, called, sent,
           events, url_, expr_, instance, log, seriesSet, table >>

\* ---------------------------------------------------------------- browser
\* window.setTimeout returns a handle that identifies the new timer.  Handle
\* values only matter up to equality, so the smallest handle that is neither
\* pending nor still held in a timer_ field is taken.
FreshHandle ==
  LET used == {t.id : t \in timers} \cup {timer_[w] : w \in Ids}
  IN  CHOOSE h \in 1..(Cardinality(used) + 1) :
        h \notin used /\ \A g \in 1..(h - 1) : g \in used

\* window.clearTimeout(h): the pending timers without the one identified by h
ClearTimeout(h) == {t \in timers : t.id # h}

\* The timer the timer_ field of w refers to is still pending
Pending(w) == timer_[w] # NULL /\ \E t \in timers : t.id = timer_[w]

\* Pending timers whose callback is bound to w
TimersOf(w) == {t \in timers : t.w = w}

\* Delay (ms) of the pending timer held in timer_[w]
PendingWait(w) == (CHOOSE t \in timers : t.id = timer_[w]).ms

\* -------------------------------------------------------------- TSDBWatch
\* this.refresh_ = windowSeconds / 40, in ms: windowSeconds * 1000 / 40,
\* computed as windowSeconds * (1000 / 40) to stay within 32-bit integers
Refresh(windowSeconds) == windowSeconds * (1000 \div 40)

\* The next delay without the ceiling
NextDelay_NoClamp(d) == d * DELAY_MULT

\* Math.min(this.delay_ * TSDBWatch.DELAY_MULT, TSDBWatch.MAX_DELAY)
NextDelay(d) == Min(d * DELAY_MULT, MAX_DELAY)

\* TSDBWatch.prototype.sendRequest_
sendRequest_(w) ==
  /\ timer_' = [timer_ EXCEPT ![w] = NULL]
  /\ inflight' = [inflight EXCEPT ![w] = @ + 1]
  /\ sent' = w

\* retry_ with the backoff delay kept on the constructor, shared by every
\* watch
retry_SharedDelay(w) ==
  IF timer_[w] # NULL
    THEN UNCHANGED << timer_, timers, delay_ >>
    ELSE /\ timer_' = [timer_ EXCEPT ![w] = FreshHandle]
         /\ timers' = timers \cup {[id |-> FreshHandle, w |-> w, ms |-> delay_[w]]}
         /\ delay_' = [v \in Ids |-> IF options_[v] # 0 THEN NextDelay(delay_[w])
                                                      ELSE delay_[v]]

\* retry_ without the pending-timer guard
retry_NoGuard(w) ==
  /\ timer_' = [timer_ EXCEPT ![w] = FreshHandle]
  /\ timers' = timers \cup {[id |-> FreshHandle, w |-> w, ms |-> delay_[w]]}
  /\ delay_' = [delay_ EXCEPT ![w] = NextDelay(delay_[w])]

\* retry_ that stops retrying once the backoff delay has reached its ceiling
retry_GivesUp(w) ==
  IF timer_[w] # NULL \/ delay_[w] >= MAX_DELAY
    THEN UNCHANGED << timer_, timers, delay_ >>
    ELSE /\ timer_' = [timer_ EXCEPT ![w] = FreshHandle]
         /\ timers' = timers \cup {[id |-> FreshHandle, w |-> w, ms |-> delay_[w]]}
         /\ delay_' = [delay_ EXCEPT ![w] = NextDelay(delay_[w])]

\* TSDBWatch.prototype.retry_
retry_(w) ==
  IF timer_[w] # NULL
    THEN \* 'Duplicate retry call'
         UNCHANGED << timer_, timers, delay_ >>
    ELSE /\ timer_' = [timer_ EXCEPT ![w] = FreshHandle]
         /\ timers' = timers \cup {[id |-> FreshHandle, w |-> w, ms |-> delay_[w]]}
         /\ delay_' = [delay_ EXCEPT ![w] = NextDelay(delay_[w])]

\* onLoad_ without the `return` after retry_(): a falsy payload falls through
\* to the success path
onLoad_NoReturn(w, data) ==
  LET h1 == FreshHandle
      used == {t.id : t \in timers} \cup {timer_[v] : v \in Ids} \cup {h1}
      h2 == CHOOSE h \in 1..(Cardinality(used) + 1) : h \notin used
      retried == ~Truthy(data) /\ timer_[w] = NULL
      h == IF retried THEN h2 ELSE h1
  IN  /\ delay_' = [delay_ EXCEPT ![w] = MIN_DELAY]
      /\ called' = w
      /\ timer_' = [timer_ EXCEPT ![w] = h]
      /\ timers' = timers
            \cup (IF retried THEN {[id |-> h1, w |-> w, ms |-> delay_[w]]} ELSE {})
            \cup {[id |-> h, w |-> w, ms |-> refresh_[w]]}

\* onLoad_ that waits the backoff delay, not the refresh interval, after a
\* success
onLoad_WaitsDelay(w, data) ==
  IF ~Truthy(data)
    THEN /\ retry_(w)
         /\ called' = 0
    ELSE /\ delay_' = [delay_ EXCEPT ![w] = MIN_DELAY]
         /\ called' = w
         /\ timer_' = [timer_ EXCEPT ![w] = FreshHandle]
         /\ timers' = timers \cup {[id |-> FreshHandle, w |-> w, ms |-> delay_[w]]}

\* onLoad_ without the `!data` test: every load is a success
onLoad_NoCheck(w, data) ==
  /\ delay_' = [delay_ EXCEPT ![w] = MIN_DELAY]
  /\ called' = w
  /\ timer_' = [timer_ EXCEPT ![w] = FreshHandle]
  /\ timers' = timers \cup {[id |-> FreshHandle, w |-> w, ms |-> refresh_[w]]}

\* onLoad_ that sets the refresh timer before it invokes the callback
onLoad_TimerFirst(w, data) ==
  IF ~Truthy(data)
    THEN /\ retry_(w)
         /\ called' = 0
    ELSE /\ delay_' = [delay_ EXCEPT ![w] = MIN_DELAY]
         /\ timer_' = [timer_ EXCEPT ![w] = FreshHandle]
         /\ timers' = timers \cup {[id |-> FreshHandle, w |-> w, ms |-> refresh_[w]]}
         /\ called' = w

\* TSDBWatch.prototype.onLoad_; an exception raised by the callback leaves
\* the handler before the refresh timer is set
onLoad_(w, data) ==
  IF ~Truthy(data)
    THEN /\ retry_(w)
         /\ called' = 0
    ELSE /\ delay_' = [delay_ EXCEPT ![w] = MIN_DELAY]
         /\ called' = w
         /\ IF Raises(Response(data))
              THEN UNCHANGED << timer_, timers >>
              ELSE /\ timer_' = [timer_ EXCEPT ![w] = FreshHandle]
                   /\ timers' = timers \cup {[id |-> FreshHandle, w |-> w, ms |-> refresh_[w]]}

\* destroy that leaves the timer running
destroy_NoClear(w) == UNCHANGED timers

\* destroy as a pause / resume toggle: cancels the pending timer, or sets one
\* when none is pending
destroy_Toggle(w) ==
  IF Pending(w)
    THEN timers' = ClearTimeout(timer_[w])
    ELSE timers' = timers \cup {[id |-> FreshHandle, w |-> w, ms |-> delay_[w]]}

\* TSDBWatch.prototype.destroy
destroy(w) ==
  IF timer_[w] # NULL
    THEN timers' = ClearTimeout(timer_[w])
    ELSE UNCHANGED timers

\* ----------------------------------------------------------------- actions
Observe(op, w, payload) ==
  /\ ev' = [op |-> op, w |-> w, data |-> payload, prev |-> ev.op]
  /\ events' = Min(events + 1, MaxEvents)

Failed(op, payload) == op \in {"error", "timeout"} \/ (op = "load" /\ ~Truthy(payload))

CountResponse(op, w, payload) ==
  /\ fails' = [fails EXCEPT ![w] = IF Failed(op, payload) THEN Min(@ + 1, MaxFails) ELSE 0]
  /\ oks' = [oks EXCEPT ![w] = IF Failed(op, payload) THEN @ ELSE Min(@ + 1, MaxOks)]

\* The URL the TSDBWatch constructor builds (baseURL + '/get?start=-' + ...)
Url(expr, windowSeconds, resolution) ==
  [start |-> 0 - windowSeconds, resolution |-> resolution,
   expr |-> encodeURIComponent(expr)]

\* A constructor that waits the minimum delay before its first request
NewChart_Deferred(w, i) ==
  /\ options_[w] = 0
  /\ expr_ # << >>
  /\ url_' = [url_ EXCEPT ![w] = Url(expr_, charts_[i].seconds, charts_[i].resolution)]
  /\ options_' = [options_ EXCEPT ![w] = i]
  /\ refresh_' = [refresh_ EXCEPT ![w] = Refresh(charts_[i].seconds)]
  /\ delay_' = [delay_ EXCEPT ![w] = MIN_DELAY]
  /\ timer_' = [timer_ EXCEPT ![w] = FreshHandle]
  /\ timers' = timers \cup {[id |-> FreshHandle, w |-> w, ms |-> MIN_DELAY]}
  /\ called' = 0
  /\ sent' = 0
  /\ Observe("new", w, "none")
  /\ UNCHANGED << inflight, destroyed, cancelled, fails, oks >>
  /\ UNCHANGED << consoleVars, drawVars >>

\* new Chart(client, expr, options) with options = charts_[i], and the
\* TSDBWatch it creates through client.watch
NewChart(w, i) ==
  /\ options_[w] = 0
  /\ expr_ # << >>
  /\ url_' = [url_ EXCEPT ![w] = Url(expr_, charts_[i].seconds, charts_[i].resolution)]
  /\ options_' = [options_ EXCEPT ![w] = i]
  /\ refresh_' = [refresh_ EXCEPT ![w] = Refresh(charts_[i].seconds)]
  /\ delay_' = [delay_ EXCEPT ![w] = MIN_DELAY]
  /\ sendRequest_(w)
  /\ called' = 0
  /\ Observe("new", w, "none")
  /\ UNCHANGED << timers, destroyed, cancelled, fails, oks >>
  /\ UNCHANGED << consoleVars, drawVars >>

\* The request of w completes with a load event
Load(w, data) ==
  /\ inflight[w] > 0
  /\ inflight' = [inflight EXCEPT ![w] = @ - 1]
  /\ onLoad_(w, data)
  /\ sent' = 0
  /\ CountResponse("load", w, data)
  /\ Observe("load", w, data)
  /\ UNCHANGED << options_, refresh_, destroyed, cancelled >>
  /\ UNCHANGED << url_, consoleVars, drawVars >>

\* The request of w completes with an error event
Error(w) ==
  /\ inflight[w] > 0
  /\ inflight' = [inflight EXCEPT ![w] = @ - 1]
  /\ retry_(w)
  /\ called' = 0
  /\ sent' = 0
  /\ CountResponse("error", w, "none")
  /\ Observe("error", w, "none")
  /\ UNCHANGED << options_, refresh_, destroyed, cancelled >>
  /\ UNCHANGED << url_, consoleVars, drawVars >>

\* The request of w completes with a timeout event (xhr.timeout = 30 s)
Timeout(w) ==
  /\ inflight[w] > 0
  /\ inflight' = [inflight EXCEPT ![w] = @ - 1]
  /\ retry_(w)
  /\ called' = 0
  /\ sent' = 0
  /\ CountResponse("timeout", w, "none")
  /\ Observe("timeout", w, "none")
  /\ UNCHANGED << options_, refresh_, destroyed, cancelled >>
  /\ UNCHANGED << url_, consoleVars, drawVars >>

\* A pending timeout expires: the window removes it and runs its callback,
\* sendRequest_ bound to the watch that set it
TimerFires(t) ==
  /\ t \in timers
  /\ timers' = timers \ {t}
  /\ sendRequest_(t.w)
  /\ called' = 0
  /\ Observe("timer", t.w, "none")
  /\ UNCHANGED << options_, refresh_, delay_, destroyed, cancelled, fails, oks >>
  /\ UNCHANGED << url_, consoleVars, drawVars >>

\* Chart.prototype.destroy: destroys the watch (and clears the drawn chart)
ChartDestroy(w) ==
  /\ options_[w] # 0
  /\ destroy(w)
  /\ destroyed' = [destroyed EXCEPT ![w] = TRUE]
  /\ cancelled' = [cancelled EXCEPT ![w] = @ \/ Pending(w)]
  /\ called' = 0
  /\ sent' = 0
  /\ Observe("destroy", w, "none")
  /\ UNCHANGED << options_, refresh_, delay_, timer_, inflight, fails, oks >>
  /\ UNCHANGED << url_, consoleVars, drawVars >>

\* A request that already delivered an event delivers a failure event once
\* more, right after the first: retry_ runs again for the same request
DuplicateFailure(w, op) ==
  /\ ev.w = w
  /\ ev.op \in {"load", "error", "timeout"}
  /\ op \in {"error", "timeout"}
  /\ retry_(w)
  /\ called' = 0
  /\ sent' = 0
  /\ Observe("dup", w, "none")
  /\ UNCHANGED << options_, refresh_, inflight, destroyed, cancelled, fails, oks >>
  /\ UNCHANGED << url_, consoleVars, drawVars >>

\* ---------------------------------------------------------- specifications
\* ------------------------------------------------------------- drawChart_
\* Inputs of drawChart_: series objects [tags, timestamps_values]; tags is the
\* list of <<key, value>> pairs in the object's iteration order,
\* timestamps_values the list of <<epochSeconds, value>> samples in ascending
\* time order.
Timestamps == {100, 150, 200}
Values == {1, 2}
TagSets == { << <<"host", "a">> >>, << <<"host", "b">> >> }

SeqsUpTo(S, n) == UNION {[1..k -> S] : k \in 0..n}

SampleSeqs ==
  {q \in SeqsUpTo({<<t, v>> : t \in Timestamps, v \in Values}, MaxSamples) :
     \A j \in 1..(Len(q) - 1) : q[j][1] < q[j + 1][1]}

SeriesSets == SeqsUpTo([tags : TagSets, timestamps_values : SampleSeqs], MaxSeries)

\* A table cell: null, or a number
Null == << >>
Num(v) == << v >>

\* tags.push(key + '=' + ts.tags[key]) for every key, then tags.join(','):
\* the label as the list of its pieces
RECURSIVE Label(_)
Label(tags) ==
  IF tags = << >> THEN << >>
  ELSE IF Len(tags) = 1 THEN << tags[1][1], "=", tags[1][2] >>
  ELSE << tags[1][1], "=", tags[1][2], "," >> \o Label(Tail(tags))

\* The test that drops a series regardless of its samples' number: never
IsEmptySeries_Never(ts) == FALSE

\* !ts.timestamps_values.length
IsEmptySeries(ts) == Len(ts.timestamps_values) = 0

\* data.splice(i, 1)
Splice(d, i) == SubSeq(d, 1, i - 1) \o SubSeq(d, i + 1, Len(d))

\* The first loop of drawChart_, from the last series down to the first:
\* removes the series without samples from data, adds a column for each
\* other one (position i is the source's index i - 1)
RECURSIVE ColumnLoop(_, _, _)
ColumnLoop(d, i, cols) ==
  IF i < 1 THEN [data |-> d, cols |-> cols]
  ELSE IF IsEmptySeries(d[i]) THEN ColumnLoop(Splice(d, i), i - 1, cols)
  ELSE ColumnLoop(d, i - 1, Append(cols, [type |-> "number", label |-> Label(d[i].tags)]))

\* A Date made of epoch seconds without the conversion to milliseconds
ToDate_Seconds(seconds) == seconds

\* new Date(seconds * 1000): the instant in epoch milliseconds
ToDate(seconds) == seconds * 1000

Nulls(n) == [k \in 1..n |-> Null]

\* A row whose value is always in the first data column
Row_ValueFirst(sample, i, n) ==
  [date |-> ToDate(sample[1]), cells |-> << Num(sample[2]) >> \o Nulls(n - 1)]

\* The row of one sample of the series at position i among n series: the
\* date (row[0] in the source), then the data cells
Row(sample, i, n) ==
  [date |-> ToDate(sample[1]),
   cells |-> Nulls(i - 1) \o << Num(sample[2]) >> \o Nulls(n - i)]

\* The second loop of drawChart_: the rows of every sample of every series
RECURSIVE RowLoop(_, _, _)
RowLoop(d, i, rows) ==
  IF i > Len(d) THEN rows
  ELSE RowLoop(d, i + 1,
         rows \o [j \in 1..Len(d[i].timestamps_values) |->
                   Row(d[i].timestamps_values[j], i, Len(d))])

\* Chart.prototype.drawChart_: the DataTable handed to the LineChart
drawChart_(d) ==
  LET c == ColumnLoop(d, Len(d), << [type |-> "date", label |-> <<"Timestamp">>] >>)
  IN  [columns |-> c.cols, rows |-> RowLoop(c.data, 1, << >>), drawn |-> TRUE]

\* drawChart_ runs on the SeriesSet
DrawChart ==
  /\ ~table.drawn
  /\ table' = drawChart_(seriesSet)
  /\ UNCHANGED << options_, refresh_, delay_, timer_, inflight, timers,
                  destroyed, cancelled, fails, oks, ev, called, sent,
                  events, url_, expr_, instance, log, seriesSet >>

\* No table built yet
NoTable == [columns |-> << >>, rows |-> << >>, drawn |-> FALSE]

\* The page before loadCharts_ has created any Chart
InitPage ==
  /\ instance = [i \in 1..Len(charts_) |-> 0]
  /\ log = << >>
  /\ url_ = [w \in Ids |-> [start |-> 0, resolution |-> "", expr |-> << >>]]
  /\ events = 0
  /\ table = NoTable
  /\ options_ = [w \in Ids |-> 0]
  /\ refresh_ = [w \in Ids |-> 0]
  /\ delay_ = [w \in Ids |-> 0]
  /\ timer_ = [w \in Ids |-> NULL]
  /\ inflight = [w \in Ids |-> 0]
  /\ timers = {}
  /\ destroyed = [w \in Ids |-> FALSE]
  /\ cancelled = [w \in Ids |-> FALSE]
  /\ fails = [w \in Ids |-> 0]
  /\ oks = [w \in Ids |-> 0]
  /\ ev = [op |-> "init", w |-> 0, data |-> "none", prev |-> "init"]
  /\ called = 0
  /\ sent = 0

\* The page once jsapiLoaded_ has read the expression from the URL hash and
\* before loadCharts_ has created any Chart
Init ==
  /\ InitPage
  /\ expr_ \in Exprs
  /\ seriesSet = << >>

\* drawChart_ applied to every SeriesSet within the bounds
InitDraw ==
  /\ InitPage
  /\ expr_ = <<"a">>
  /\ seriesSet \in SeriesSets

NextDraw == DrawChart

SpecDraw == InitDraw /\ [][NextDraw]_vars

Next ==
  \/ \E w \in Solo, i \in 1..Len(charts_) : NewChart(w, i)
  \/ \E w \in Solo, payload \in Payloads : Load(w, payload)
  \/ \E w \in Solo : Error(w)
  \/ \E w \in Solo : Timeout(w)
  \/ \E t \in timers : TimerFires(t)
  \/ \E w \in Solo : ChartDestroy(w)

\* Every request delivers exactly one of load, error, timeout
Spec == Init /\ [][Next]_vars

NextDup ==
  \/ Next
  \/ \E w \in Solo, op \in {"error", "timeout"} : DuplicateFailure(w, op)

\* A request may deliver a second, failure event
SpecDup == Init /\ [][NextDup]_vars

\* The browser runs a due timeout callback, and every request completes
\* (at the latest by its 30 s timeout)
Respond(w) == (\E payload \in Payloads : Load(w, payload)) \/ Error(w) \/ Timeout(w)

LiveSpec ==
  /\ Init /\ [][Next]_vars
  /\ \A w \in Ids : WF_vars(Respond(w))
  /\ WF_vars(\E t \in timers : TimerFires(t))

\* ---------------------------------------------------------------- Console
\* The part of the state loadCharts_ works on, as a value: its loop runs
\* destroy and new for one window after the other within one handler
Cur ==
  [options_ |-> options_, refresh_ |-> refresh_, delay_ |-> delay_,
   timer_ |-> timer_, inflight |-> inflight, timers |-> timers,
   url_ |-> url_, instance |-> instance, destroyed |-> destroyed,
   cancelled |-> cancelled, log |-> log, sent |-> sent]

\* options.instance.destroy(): Chart.prototype.destroy, which calls
\* TSDBWatch.prototype.destroy, in state st
ChartDestroyIn(st, w) ==
  [st EXCEPT
     !.timers = IF st.timer_[w] # NULL THEN {t \in @ : t.id # st.timer_[w]} ELSE @,
     !.destroyed[w] = TRUE,
     !.cancelled[w] = @ \/ (st.timer_[w] # NULL /\ \E t \in st.timers : t.id = st.timer_[w]),
     !.log = Append(@, <<"destroy", w>>)]

\* The identity of the next object created in state st
FreeId(st) ==
  CHOOSE w \in Ids : st.options_[w] = 0 /\ \A v \in Ids : v < w => st.options_[v] # 0

\* options.instance = new Chart(this.client_, this.expr_, options), with the
\* TSDBWatch constructor and its sendRequest_, in state st
NewChartIn(st, i, expr) ==
  LET w == FreeId(st)
  IN  [st EXCEPT
         !.options_[w] = i,
         !.url_[w] = Url(expr, charts_[i].seconds, charts_[i].resolution),
         !.refresh_[w] = Refresh(charts_[i].seconds),
         !.delay_[w] = MIN_DELAY,
         !.timer_[w] = NULL,
         !.inflight[w] = @ + 1,
         !.sent = w,
         !.instance[i] = w,
         !.log = Append(@, <<"new", w>>)]

\* A loop body that creates the new Chart before it destroys the old one
LoadStep_NewFirst(st, i, expr) ==
  LET old == st.instance[i]
      s1 == NewChartIn(st, i, expr)
  IN  IF old # 0 THEN ChartDestroyIn(s1, old) ELSE s1

\* The body of the loop of loadCharts_ for window i
LoadStep(st, i, expr) ==
  LET s1 == IF st.instance[i] # 0 THEN ChartDestroyIn(st, st.instance[i]) ELSE st
  IN  NewChartIn(s1, i, expr)

RECURSIVE LoadLoop(_, _, _)
LoadLoop(st, i, expr) ==
  IF i > Len(charts_) THEN st ELSE LoadLoop(LoadStep(st, i, expr), i + 1, expr)

\* loadCharts_ without the test of the expression
loadCharts_NoGuard(expr) ==
  LoadLoop([Cur EXCEPT !.log = << >>, !.sent = 0], 1, expr)

\* Console.prototype.loadCharts_ with this.expr_ = expr: the state it leaves
loadCharts_(expr) ==
  IF expr = << >>
    THEN [Cur EXCEPT !.log = << >>, !.sent = 0]
    ELSE LoadLoop([Cur EXCEPT !.log = << >>, !.sent = 0], 1, expr)

\* Enough identities are left for the Charts loadCharts_ creates
CanLoad(expr) ==
  expr = << >> \/
  Cardinality({w \in Ids : options_[w] # 0}) + Len(charts_) <= Cardinality(Ids)

Becomes(st) ==
  /\ options_' = st.options_
  /\ refresh_' = st.refresh_
  /\ delay_' = st.delay_
  /\ timer_' = st.timer_
  /\ inflight' = st.inflight
  /\ timers' = st.timers
  /\ url_' = st.url_
  /\ instance' = st.instance
  /\ destroyed' = st.destroyed
  /\ cancelled' = st.cancelled
  /\ log' = st.log
  /\ sent' = st.sent

\* Console.prototype.jsapiLoaded_: the first handler of the page; expr_ holds
\* the expression of the URL hash
jsapiLoaded_ ==
  /\ ev.op = "init"
  /\ CanLoad(expr_)
  /\ Becomes(loadCharts_(expr_))
  /\ called' = 0
  /\ Observe("jsapiLoaded", 0, "none")
  /\ UNCHANGED << expr_, fails, oks, drawVars >>

\* Console.prototype.onHashChange_ with the hash holding expression e
onHashChange_(e) ==
  /\ ev.op # "init"
  /\ CanLoad(e)
  /\ expr_' = e
  /\ Becomes(loadCharts_(e))
  /\ called' = 0
  /\ Observe("hashchange", 0, "none")
  /\ UNCHANGED << fails, oks, drawVars >>

\* The page: the four charts of the console and the events of their watches
NextConsole ==
  \/ events < MaxEvents /\ jsapiLoaded_
  \/ \E e \in Exprs : events < MaxEvents /\ onHashChange_(e)
  \/ \E w \in Ids, payload \in Payloads : events < MaxEvents /\ Load(w, payload)
  \/ \E w \in Ids : events < MaxEvents /\ Error(w)
  \/ \E w \in Ids : events < MaxEvents /\ Timeout(w)
  \/ \E t \in timers : events < MaxEvents /\ TimerFires(t)

SpecConsole == Init /\ [][NextConsole]_vars

\* The server may answer with a payload whose series lack timestamps_values
NextThrow ==
  \/ Next
  \/ \E w \in Solo, payload \in Malformed : Load(w, payload)

SpecThrow == Init /\ [][NextThrow]_vars

\* ------------------------------------------------------------------ claims
\* C1: once destroy() has been called on a watch (Chart.destroy calls it),
\* its success callback (drawChart_) is never invoked again.
C1_NoCallbackAfterDestroy ==
  \A w \in Ids : destroyed[w] => called # w

\* C2: a response event (load, error, timeout) that arrives after destroy()
\* changes neither the backoff delay nor the timer handle and schedules no
\* timer.
C2_LateResponseIsNoOp ==
  [][\A w \in Ids :
       (destroyed[w] /\ inflight'[w] < inflight[w])
         => /\ delay_'[w] = delay_[w]
            /\ timer_'[w] = timer_[w]
            /\ timers' = timers]_vars

\* C3: once destroy() has been called while a timer was pending, the watch
\* has no pending timer and no request in flight, sendRequest_ does not run
\* and the callback is not invoked.
C3_CancelledIsQuiescent ==
  \A w \in Ids :
    cancelled[w] => /\ TimersOf(w) = {}
                    /\ inflight[w] = 0
                    /\ sent # w
                    /\ called # w

C3_Witness ==
  \E w \in Ids : /\ cancelled[w]
                 /\ ev.op = "destroy" /\ ev.w = w
                 /\ ev.prev \in {"load", "error", "timeout"}

\* C4: a watch has at most one request in flight and at most one pending
\* timer, and never a pending timer while a request is in flight.
C4_OneRequestOneTimer ==
  \A w \in Ids : /\ inflight[w] <= 1
                 /\ Cardinality(TimersOf(w)) <= 1
                 /\ ~(inflight[w] > 0 /\ TimersOf(w) # {})

C4_Witness ==
  \E w \in Ids : /\ Cardinality(TimersOf(w)) = 1
                 /\ inflight[w] = 0
                 /\ oks[w] >= 1 /\ fails[w] >= 2

\* C5: the wait scheduled after the k-th consecutive failure since the last
\* success (or start) is min(0.5 * 2^(k-1), 32) s: 500, 1000, ..., 32000,
\* 32000, ... ms.
C5_BackoffSequence ==
  \A w \in Ids :
    (ev.w = w /\ Failed(ev.op, ev.data))
      => /\ fails[w] >= 1
         /\ Pending(w)
         /\ PendingWait(w) = Min(500 * 2^(fails[w] - 1), 32000)

C5_Witness ==
  \E w \in Ids : /\ ev.w = w /\ Failed(ev.op, ev.data)
                 /\ fails[w] >= 8 /\ oks[w] >= 1
                 /\ PendingWait(w) = 32000

\* The refresh intervals the four windows are stated to have, in ms
StatedRefresh(seconds) ==
  CASE seconds = 1200     -> 30000
    [] seconds = 7200     -> 180000
    [] seconds = 432000   -> 10800000
    [] seconds = 10368000 -> 259200000

\* C6: after a successful response the next request is scheduled
\* windowSeconds / 40 s later, whatever the backoff delay was; the first
\* failure after a success is retried after 0.5 s.
C6_RefreshAfterSuccess ==
  \A w \in Ids :
    /\ (ev.w = w /\ ev.op = "load" /\ Truthy(ev.data))
         => /\ Pending(w)
            /\ PendingWait(w) = StatedRefresh(charts_[options_[w]].seconds)
            /\ charts_[options_[w]].seconds % 40 = 0
            /\ PendingWait(w) = (charts_[options_[w]].seconds \div 40) * 1000
    /\ (ev.w = w /\ Failed(ev.op, ev.data) /\ fails[w] = 1)
         => /\ Pending(w)
            /\ PendingWait(w) = 500

C6_Witness ==
  \E w \in Ids : /\ options_[w] # 0
                 /\ charts_[options_[w]].seconds = 1200
                 /\ oks[w] >= 2
                 /\ ev.w = w /\ ev.op = "timeout" /\ fails[w] = 1
                 /\ PendingWait(w) = 500

\* C7: an error event, a timeout event and a load event with a falsy payload
\* all make the same transition: no callback, one new timer with the current
\* backoff delay, and the delay doubled and clamped to 32 s.
C7_FailuresAlike ==
  [][\A w \in Ids :
       (inflight'[w] < inflight[w] /\ Failed(ev'.op, ev'.data))
         => /\ called' # w
            /\ timers' = timers \cup {[id |-> timer_'[w], w |-> w, ms |-> delay_[w]]}
            /\ Cardinality(timers') = Cardinality(timers) + 1
            /\ delay_'[w] = Min(2 * delay_[w], 32000)]_vars

C7_Witness ==
  \E w \in Ids : /\ ev.w = w /\ ev.op = "load" /\ ev.data = "null"
                 /\ fails[w] = 2
                 /\ Pending(w) /\ PendingWait(w) = 1000

\* C8: retry_ called while a timer is pending (a second failure event of the
\* same request) creates no timer, leaves the pending timer as it is and
\* does not multiply the backoff delay.
C8_DuplicateRetryIgnored ==
  [][\A w \in Ids :
       (ev.op # "dup" /\ ev'.op = "dup" /\ ev'.w = w /\ Pending(w))
         => /\ timers' = timers
            /\ timer_' = timer_
            /\ delay_' = delay_]_vars

C8_Witness ==
  \E w \in Ids : ev.op = "dup" /\ ev.w = w /\ Pending(w) /\ fails[w] >= 1

\* C9: as long as destroy() is not called, after every outcome of a request
\* another request is eventually issued, without a retry limit; under
\* persistent failure the requests are separated by the 32 s ceiling.
C9_RetriesForever ==
  /\ \A w \in Ids :
       (options_[w] # 0 /\ inflight[w] = 0 /\ ~destroyed[w])
          ~> (destroyed[w] \/ sent = w)
  /\ [](\A w \in Ids :
          (ev.w = w /\ Failed(ev.op, ev.data) /\ fails[w] >= 7 /\ Pending(w))
            => PendingWait(w) = 32000)

C9_Witness ==
  \E w \in Ids : ~destroyed[w] /\ fails[w] >= 8 /\ sent = w

\* C10: a destroy() that directly follows a destroy() of the same watch
\* changes nothing.
C10_DestroyIdempotent ==
  [][\A w \in Ids :
       (ev.op = "destroy" /\ ev.w = w /\ ev'.op = "destroy" /\ ev'.w = w
          /\ ev'.prev = "destroy")
         => UNCHANGED << options_, refresh_, delay_, timer_, inflight, timers >>]_vars

C10_Witness ==
  \E w \in Ids : /\ ev.op = "destroy" /\ ev.prev = "destroy" /\ ev.w = w
                 /\ cancelled[w]

\* C11: the constructor issues the first request itself: right after
\* `new` a request is in flight, no timer is pending and the backoff delay is
\* 0.5 s.
C11_FirstRequestImmediate ==
  \A w \in Ids :
    (ev.op = "new" /\ ev.w = w)
      => /\ sent = w
         /\ inflight[w] = 1
         /\ timer_[w] = NULL
         /\ TimersOf(w) = {}
         /\ delay_[w] = 500

C11_Witness ==
  \E w \in Ids : ev.op = "new" /\ ev.w = w /\ options_[w] # 0 /\ inflight[w] = 1

\* C19: on a successful response the backoff delay is reset and the callback
\* invoked before the refresh timer is set: when the callback returns the
\* timer is pending with the refresh interval, and when it raises the watch
\* has the delay reset, no pending timer and no request in flight.
C19_CallbackBeforeTimer ==
  \A w \in Ids :
    (ev.op = "load" /\ ev.w = w /\ Truthy(ev.data))
      => /\ delay_[w] = 500
         /\ called = w
         /\ inflight[w] = 0
         /\ IF ev.data = "malformed"
              THEN timer_[w] = NULL /\ TimersOf(w) = {}
              ELSE /\ Pending(w)
                   /\ PendingWait(w) = refresh_[w]
                   /\ Cardinality(TimersOf(w)) = 1

C19_Witness ==
  \E w \in Ids : /\ ev.op = "load" /\ ev.w = w /\ ev.data = "malformed"
                 /\ ev.prev = "timer"
                 /\ called = w /\ timers = {} /\ inflight[w] = 0

\* The series of the SeriesSet that have at least one sample, in input order
Kept == SelectSeq(seriesSet, LAMBDA ts : Len(ts.timestamps_values) >= 1)

\* All samples of the SeriesSet, as <<position among Kept, sample index>>
SamplesOfSet ==
  UNION {{<<k, j>> : j \in 1..Len(Kept[k].timestamps_values)} : k \in 1..Len(Kept)}

\* The data column (1 = first data column) holding the value of a row
ValueColumn(row) == CHOOSE k \in 1..Len(row.cells) : row.cells[k] # Null

\* C12: the data columns are labelled in the order of the series in the
\* response, and every sample's value is in the column labelled with its
\* own series' tags.
C12_ValuesUnderOwnLabel ==
  table.drawn =>
    /\ Len(table.columns) = Len(Kept) + 1
    /\ \A k \in 1..Len(Kept) : table.columns[k + 1].label = Label(Kept[k].tags)
    /\ \A kj \in SamplesOfSet :
         LET sample == Kept[kj[1]].timestamps_values[kj[2]]
         IN  \E r \in 1..Len(table.rows) :
               /\ table.rows[r].date = sample[1] * 1000
               /\ \E c \in 1..Len(table.rows[r].cells) :
                    /\ table.rows[r].cells[c] = << sample[2] >>
                    /\ table.columns[c + 1].label = Label(Kept[kj[1]].tags)

\* C13: the table has one data column per series that has at least one
\* sample, and every row has that many data cells after its time cell.
C13_EmptySeriesDropped ==
  table.drawn =>
    LET n == Cardinality({k \in DOMAIN seriesSet :
                            Len(seriesSet[k].timestamps_values) >= 1})
    IN  /\ Len(table.columns) = n + 1
        /\ \A r \in 1..Len(table.rows) : Len(table.rows[r].cells) = n

C13_Witness ==
  /\ table.drawn
  /\ Len(seriesSet) = 2
  /\ Len(seriesSet[1].timestamps_values) = 2
  /\ Len(seriesSet[2].timestamps_values) = 0
  /\ Len(table.columns) = 2
  /\ Len(table.rows) = 2

\* The rows whose value is in data column k, in table order
RowsOfColumn(k) == SelectSeq(table.rows, LAMBDA row : row.cells[k] # << >>)

\* C14: one row per sample of every retained series, holding the sample's
\* time, its value in one cell and null in every other data cell; the rows
\* of one series are in the series' input order; rows with equal times are
\* not merged.
C14_OneRowPerSample ==
  table.drawn =>
    /\ Len(table.rows) = Cardinality(SamplesOfSet)
    /\ \A r \in 1..Len(table.rows) :
         /\ Len(table.rows[r].cells) = Len(Kept)
         /\ Cardinality({c \in 1..Len(Kept) : table.rows[r].cells[c] # << >>}) = 1
    /\ \A k \in 1..Len(Kept) :
         /\ Len(RowsOfColumn(k)) = Len(Kept[k].timestamps_values)
         /\ \A j \in 1..Len(Kept[k].timestamps_values) :
              /\ RowsOfColumn(k)[j].date = Kept[k].timestamps_values[j][1] * 1000
              /\ RowsOfColumn(k)[j].cells[k] = << Kept[k].timestamps_values[j][2] >>

C14_Witness ==
  /\ table.drawn
  /\ Len(Kept) = 2
  /\ Len(table.rows) = 3
  /\ \E r1, r2 \in 1..Len(table.rows) :
       r1 # r2 /\ table.rows[r1].date = table.rows[r2].date

\* All timestamps of the SeriesSet
TimestampsOfSet == {Kept[kj[1]].timestamps_values[kj[2]][1] : kj \in SamplesOfSet}

\* C15 as stated: one row per distinct timestamp of the SeriesSet, sorted
\* ascending, with a cell present exactly where the series has a sample at
\* the row's timestamp.
C15_RowsAreDistinctTimestamps ==
  table.drawn =>
    /\ Len(table.rows) = Cardinality(TimestampsOfSet)
    /\ \A r \in 1..(Len(table.rows) - 1) : table.rows[r].date < table.rows[r + 1].date
    /\ {table.rows[r].date : r \in 1..Len(table.rows)} = {t * 1000 : t \in TimestampsOfSet}
    /\ \A r \in 1..Len(table.rows), k \in 1..Len(Kept) :
         (Len(table.rows[r].cells) >= k /\ table.rows[r].cells[k] # << >>)
           <=> \E j \in 1..Len(Kept[k].timestamps_values) :
                 Kept[k].timestamps_values[j][1] * 1000 = table.rows[r].date

\* C15 as amended: the rows cover the union of the timestamps, with one row
\* per sample (a timestamp shared by n samples has n rows), ordered by series
\* and within a series in input order; a row has a cell in exactly one data
\* column, at the position of the series the sample belongs to.
C15_RowsCoverTimestamps ==
  table.drawn =>
    /\ {table.rows[r].date : r \in 1..Len(table.rows)} = {t * 1000 : t \in TimestampsOfSet}
    /\ \A t \in TimestampsOfSet :
         Cardinality({r \in 1..Len(table.rows) : table.rows[r].date = t * 1000})
           = Cardinality({kj \in SamplesOfSet :
                            Kept[kj[1]].timestamps_values[kj[2]][1] = t})
    /\ \A r \in 1..Len(table.rows) :
         /\ Len(table.rows[r].cells) = Len(Kept)
         /\ Cardinality({c \in 1..Len(Kept) : table.rows[r].cells[c] # << >>}) = 1
         /\ \E j \in 1..Len(Kept[ValueColumn(table.rows[r])].timestamps_values) :
              LET sample == Kept[ValueColumn(table.rows[r])].timestamps_values[j]
              IN  /\ sample[1] * 1000 = table.rows[r].date
                  /\ << sample[2] >> = table.rows[r].cells[ValueColumn(table.rows[r])]
    /\ \A r1, r2 \in 1..Len(table.rows) :
         r1 < r2 => ValueColumn(table.rows[r1]) <= ValueColumn(table.rows[r2])

C15_Witness ==
  /\ table.drawn
  /\ Len(table.rows) = 3
  /\ Cardinality(TimestampsOfSet) = 2
  /\ table.rows[2].date > table.rows[3].date

\* Position of an entry in the log of the most recent loadCharts_ (0: absent)
LogIndex(entry) ==
  IF \E k \in 1..Len(log) : log[k] = entry
    THEN CHOOSE k \in 1..Len(log) : log[k] = entry
    ELSE 0

\* The most recent handler was loadCharts_ with a non-empty expression
Loaded == ev.op \in {"jsapiLoaded", "hashchange"} /\ expr_ # << >>

\* C16: after loadCharts_ with a non-empty expression every window holds
\* exactly one live instance, created with the current expression and the
\* window's seconds and resolution, and every earlier instance of the window
\* has been destroyed, the one just replaced before its replacement was
\* created.
C16_DestroyThenCreate ==
  Loaded =>
    \A i \in 1..Len(charts_) :
      LET n == instance[i]
      IN  /\ n # 0
          /\ options_[n] = i
          /\ ~destroyed[n]
          /\ url_[n] = [start |-> 0 - charts_[i].seconds,
                        resolution |-> charts_[i].resolution,
                        expr |-> encodeURIComponent(expr_)]
          /\ LogIndex(<<"new", n>>) > 0
          /\ \A w \in Ids \ {n} :
               options_[w] = i
                 => /\ destroyed[w]
                    /\ LogIndex(<<"destroy", w>>) > 0
                         => LogIndex(<<"destroy", w>>) < LogIndex(<<"new", n>>)
          /\ \A j \in 1..Len(charts_) : instance[j] = n => j = i

C16_Witness ==
  /\ ev.op = "hashchange"
  /\ expr_ = <<"b", "&">>
  /\ Len(log) = 2 * Len(charts_)
  /\ instance[1] # 0
  /\ url_[instance[1]] = [start |-> 0 - 1200, resolution |-> "full", expr |-> <<"b", "%26">>]

\* The watch state of v is the same before and after the step
SameWatch(v) ==
  /\ delay_'[v] = delay_[v]
  /\ timer_'[v] = timer_[v]
  /\ inflight'[v] = inflight[v]
  /\ {t \in timers' : t.w = v} = TimersOf(v)

Superseded(w) == options_[w] # 0 /\ instance[options_[w]] # w

\* C18: a superseded session is quiescent: it issues no request, delivers
\* no table and has no pending timer, so a window never has more than one
\* polling loop.
C18_SupersededQuiescent ==
  \A w \in Ids :
    Superseded(w) => /\ called # w
                     /\ sent # w
                     /\ TimersOf(w) = {}

\* C20: loadCharts_ with an empty expression creates no session and
\* destroys none: instances, URLs and the watches' state stay as they are.
C20_EmptyExpressionNoOp ==
  [][(ev'.op \in {"jsapiLoaded", "hashchange"} /\ expr_' = << >>)
       => /\ UNCHANGED << instance, options_, url_, refresh_, delay_, timer_,
                          inflight, timers, destroyed, cancelled >>
          /\ log' = << >>]_vars

C20_Witness ==
  /\ expr_ = << >>
  /\ ev.prev = "hashchange"
  /\ ev.op = "load" /\ ev.data = "series"
  /\ instance[1] = ev.w
  /\ called = ev.w
  /\ ~destroyed[ev.w]
  /\ url_[ev.w].expr = <<"a">>

====
